---- MODULE Spec2Model ----
(***************************************************************************)
(* Model of src/services/dependencyService.ts: the dependency-graph        *)
(* builder (generateDependencyGraph), its import extractors and the        *)
(* import-path resolver (resolveImport).                                   *)
(*                                                                         *)
(* A JavaScript string is a sequence of one-character strings, so that     *)
(* split, join, startsWith, endsWith and the regular expressions of the    *)
(* source are computed character by character.                             *)
(***************************************************************************)
EXTENDS Integers, Sequences, FiniteSets, TLC

(***************************************************************************)
(* String primitives (ECMAScript semantics of the methods the source uses) *)
(***************************************************************************)

\* String.prototype.startsWith
startsWith(s, p) ==
  /\ Len(p) <= Len(s)
  /\ SubSeq(s, 1, Len(p)) = p

\* String.prototype.endsWith
endsWith(s, p) ==
  /\ Len(p) <= Len(s)
  /\ SubSeq(s, Len(s) - Len(p) + 1, Len(s)) = p

\* Positions of the character c in s.
IndicesOf(s, c) == {i \in 1..Len(s) : s[i] = c}

Min(S) == CHOOSE x \in S : \A y \in S : x <= y

Max(S) == CHOOSE x \in S : \A y \in S : x >= y

\* String.prototype.split with a one-character separator: always at least
\* one part ("".split("/") is [""]).
RECURSIVE split(_, _)
split(s, sep) ==
  IF IndicesOf(s, sep) = {}
    THEN <<s>>
    ELSE LET i == Min(IndicesOf(s, sep))
         IN  <<SubSeq(s, 1, i - 1)>> \o split(SubSeq(s, i + 1, Len(s)), sep)

\* Array.prototype.join with a one-character separator ([] joins to "").
RECURSIVE join(_, _)
join(parts, sep) ==
  IF parts = <<>> THEN <<>>
  ELSE IF Len(parts) = 1 THEN parts[1]
  ELSE parts[1] \o <<sep>> \o join(Tail(parts), sep)

\* Array.prototype.pop, as the array it leaves (a no-op on []).
pop(arr) == IF arr = <<>> THEN arr ELSE SubSeq(arr, 1, Len(arr) - 1)

\* The value Array.prototype.pop returns; undefined on [] is not needed:
\* split never returns [].
last(arr) == arr[Len(arr)]

Slash == "/"

Dot == "."

(***************************************************************************)
(* resolveImport (dependencyService.ts:123-168)                            *)
(***************************************************************************)

\* The result of resolveImport: a string, or undefined.
undefined == [found |-> FALSE, id |-> <<>>]

Some(id) == [found |-> TRUE, id |-> id]

\* Lines 127-128: the directory segments of the source file.
sourceDirParts(sourceFile) == pop(split(sourceFile, Slash))

\* Line 130.
importParts(importPath) == split(importPath, Slash)

\* Mutant of foldParts: ".." is skipped like "." and pops nothing.
RECURSIVE foldParts_noPop(_, _)
foldParts_noPop(stack, parts) ==
  IF parts = <<>> THEN stack
  ELSE LET part == Head(parts)
       IN  IF part = <<".">> \/ part = <<".", ".">>
             THEN foldParts_noPop(stack, Tail(parts))
             ELSE foldParts_noPop(Append(stack, part), Tail(parts))

\* Lines 133-140: the loop over the import's segments.
RECURSIVE foldParts(_, _)
foldParts(stack, parts) ==
  IF parts = <<>> THEN stack
  ELSE LET part == Head(parts)
       IN  IF part = <<".">> THEN foldParts(stack, Tail(parts))
           ELSE IF part = <<".", ".">>
             THEN foldParts(IF Len(stack) > 0 THEN pop(stack) ELSE stack, Tail(parts))
           ELSE foldParts(Append(stack, part), Tail(parts))

\* Line 142.
resolvedBase(sourceFile, importPath) ==
  join(foldParts(sourceDirParts(sourceFile), importParts(importPath)), Slash)

\* Mutant of extensions: .tsx is probed before .ts.
extensions_tsxFirst ==
  << <<>>,
     <<".", "t", "s", "x">>,
     <<".", "t", "s">>,
     <<".", "j", "s">>,
     <<".", "j", "s", "x">>,
     <<"/", "i", "n", "d", "e", "x", ".", "t", "s">>,
     <<"/", "i", "n", "d", "e", "x", ".", "t", "s", "x">> >>

\* Line 145.
extensions ==
  << <<>>,
     <<".", "t", "s">>,
     <<".", "t", "s", "x">>,
     <<".", "j", "s">>,
     <<".", "j", "s", "x">>,
     <<"/", "i", "n", "d", "e", "x", ".", "t", "s">>,
     <<"/", "i", "n", "d", "e", "x", ".", "t", "s", "x">> >>

\* Set.prototype.has on the insertion-ordered set allFiles.
has(allFiles, id) == \E i \in 1..Len(allFiles) : allFiles[i] = id

\* Lines 146-149: the first candidate that is a known file.
probe(base, allFiles) ==
  LET hits == {e \in 1..Len(extensions) : has(allFiles, base \o extensions[e])}
  IN  IF hits = {} THEN undefined ELSE Some(base \o extensions[Min(hits)])

\* Lines 125-150: strategy 1, relative imports.
relativeMatch(sourceFile, importPath, allFiles) ==
  IF startsWith(importPath, <<".">>)
    THEN probe(resolvedBase(sourceFile, importPath), allFiles)
    ELSE undefined

\* Mutant of exactMatch: the import path is returned without the lookup.
exactMatch_unchecked(importPath, allFiles) == Some(importPath)

\* Line 153: strategy 2, the import path is itself a known file.
exactMatch(importPath, allFiles) ==
  IF has(allFiles, importPath) THEN Some(importPath) ELSE undefined

\* Line 157.
importBase(importPath) == last(split(importPath, Slash))

\* Line 161: file.replace(/\.[^/.]+$/, ""). The match starts at the last
\* dot, which must be followed by one or more characters, none a slash.
fileNoExt(file) ==
  LET dots == IndicesOf(file, Dot)
  IN  IF dots = {} THEN file
      ELSE LET d == Max(dots)
           IN  IF d < Len(file) /\ \A i \in (d + 1)..Len(file) : file[i] # Slash
                 THEN SubSeq(file, 1, d - 1)
                 ELSE file

\* Mutant of suffixTest: the import must start at a path segment of the
\* file.
suffixTest_segmentAligned(file, importPath) ==
  \/ fileNoExt(file) = importPath
  \/ endsWith(fileNoExt(file), <<Slash>> \o importPath)

\* Line 162: the test of the basename fallback.
suffixTest(file, importPath) ==
  \/ endsWith(fileNoExt(file), importPath)
  \/ endsWith(fileNoExt(file), <<Slash>> \o importPath)

\* Mutant of basenameMatch: the last file that passes the test is returned.
basenameMatch_lastMatch(importPath, allFiles) ==
  IF importBase(importPath) = <<>> THEN undefined
  ELSE LET hits == {i \in 1..Len(allFiles) : suffixTest(allFiles[i], importPath)}
       IN  IF hits = {} THEN undefined ELSE Some(allFiles[Max(hits)])

\* Lines 157-167: strategy 3, the scan of allFiles in insertion order.
basenameMatch(importPath, allFiles) ==
  IF importBase(importPath) = <<>> THEN undefined
  ELSE LET hits == {i \in 1..Len(allFiles) : suffixTest(allFiles[i], importPath)}
       IN  IF hits = {} THEN undefined ELSE Some(allFiles[Min(hits)])

\* Mutant of resolveImport: the exact match is tried before the relative
\* probe.
resolveImport_exactFirst(sourceFile, importPath, allFiles) ==
  LET r1 == relativeMatch(sourceFile, importPath, allFiles)
      r2 == exactMatch(importPath, allFiles)
  IN  IF r2.found THEN r2
      ELSE IF r1.found THEN r1
      ELSE basenameMatch(importPath, allFiles)

\* Lines 123-168.
resolveImport(sourceFile, importPath, allFiles) ==
  LET r1 == relativeMatch(sourceFile, importPath, allFiles)
      r2 == exactMatch(importPath, allFiles)
  IN  IF r1.found THEN r1
      ELSE IF r2.found THEN r2
      ELSE basenameMatch(importPath, allFiles)

(***************************************************************************)
(* Concrete strings: file names and import paths of the bounded inputs.    *)
(***************************************************************************)

\* "src/a.ts"
src_a_ts == <<"s", "r", "c", "/", "a", ".", "t", "s">>

\* "src/b.ts"
src_b_ts == <<"s", "r", "c", "/", "b", ".", "t", "s">>

\* "src/components/Button.tsx"
Button_tsx == <<"s", "r", "c", "/", "c", "o", "m", "p", "o", "n", "e", "n", "t", "s", "/", "B", "u", "t", "t", "o", "n", ".", "t", "s", "x">>

\* "x/y.ts"
x_y_ts == <<"x", "/", "y", ".", "t", "s">>

\* "x/b"
x_b == <<"x", "/", "b">>

\* "x/b.ts"
x_b_ts == <<"x", "/", "b", ".", "t", "s">>

\* "x/b.tsx"
x_b_tsx == <<"x", "/", "b", ".", "t", "s", "x">>

\* "x/b.js"
x_b_js == <<"x", "/", "b", ".", "j", "s">>

\* "x/b.jsx"
x_b_jsx == <<"x", "/", "b", ".", "j", "s", "x">>

\* "x/b/index.ts"
x_b_index_ts == <<"x", "/", "b", "/", "i", "n", "d", "e", "x", ".", "t", "s">>

\* "x/b/index.tsx"
x_b_index_tsx == <<"x", "/", "b", "/", "i", "n", "d", "e", "x", ".", "t", "s", "x">>

\* "foo./b.ts"
foo_b_ts == <<"f", "o", "o", ".", "/", "b", ".", "t", "s">>

\* "./b"
dot_b == <<".", "/", "b">>

\* "lib/util"
lib_util == <<"l", "i", "b", "/", "u", "t", "i", "l">>

\* "src/lib/util.ts"
src_lib_util_ts == <<"s", "r", "c", "/", "l", "i", "b", "/", "u", "t", "i", "l", ".", "t", "s">>

\* ""
empty_id == <<>>

\* "y.ts"
y_ts == <<"y", ".", "t", "s">>

\* "b.ts"
b_ts == <<"b", ".", "t", "s">>

\* "src/logo.png"
src_logo_png == <<"s", "r", "c", "/", "l", "o", "g", "o", ".", "p", "n", "g">>

\* "src/run.ts"
src_run_ts == <<"s", "r", "c", "/", "r", "u", "n", ".", "t", "s">>

\* "src/s.css"
src_s_css == <<"s", "r", "c", "/", "s", ".", "c", "s", "s">>

\* "src/m.py"
src_m_py == <<"s", "r", "c", "/", "m", ".", "p", "y">>

\* "./b"
imp_b == <<".", "/", "b">>

\* "./a/../b"
imp_a_up_b == <<".", "/", "a", "/", ".", ".", "/", "b">>

\* "@/components/Button"
imp_alias_Button == <<"@", "/", "c", "o", "m", "p", "o", "n", "e", "n", "t", "s", "/", "B", "u", "t", "t", "o", "n">>

\* "../b"
imp_up_b == <<".", ".", "/", "b">>

\* "../a"
imp_up_a == <<".", ".", "/", "a">>

\* "."
imp_dot == <<".">>

\* ""
imp_empty == <<>>

\* "lib/util"
imp_lib_util == <<"l", "i", "b", "/", "u", "t", "i", "l">>

\* "b"
imp_bare_b == <<"b">>

\* "./logo.png"
imp_logo == <<".", "/", "l", "o", "g", "o", ".", "p", "n", "g">>

\* "react"
imp_react == <<"r", "e", "a", "c", "t">>

\* "./b/"
imp_b_slash == <<".", "/", "b", "/">>

\* "b/util"
imp_b_util == <<"b", "/", "u", "t", "i", "l">>

\* "components/Button"
imp_Button == <<"c", "o", "m", "p", "o", "n", "e", "n", "t", "s", "/", "B", "u", "t", "t", "o", "n">>

(***************************************************************************)
(* File contents and the import extractors (dependencyService.ts:43-114).  *)
(*                                                                         *)
(* The content of a file is a sequence of one-line statements. The regular *)
(* expression extractors read its text, character by character. The        *)
(* TypeScript parser is a library: the syntax tree it builds for the text  *)
(* of well-formed statements is the statement sequence itself.             *)
(***************************************************************************)

Stmt(form, path) == [form |-> form, path |-> path]

kw_import == <<"i", "m", "p", "o", "r", "t">>

kw_from == <<"f", "r", "o", "m">>

kw_export == <<"e", "x", "p", "o", "r", "t">>

kw_require == <<"r", "e", "q", "u", "i", "r", "e">>

quoted(path) == <<"'">> \o path \o <<"'">>

\* The text of one statement.
stmtText(st) ==
  CASE st.form = "import"   -> kw_import \o <<" ", "x", " ">> \o kw_from \o <<" ">> \o quoted(st.path)
    [] st.form = "bare"     -> kw_import \o <<" ">> \o quoted(st.path)
    [] st.form = "export"   -> kw_export \o <<" ", "*", " ">> \o kw_from \o <<" ">> \o quoted(st.path)
    [] st.form = "require"  -> kw_require \o <<"(">> \o quoted(st.path) \o <<")">>
    [] st.form = "dynamic"  -> kw_import \o <<"(">> \o quoted(st.path) \o <<")">>
    [] st.form = "pyfrom"   -> kw_from \o <<" ">> \o st.path \o <<" ">> \o kw_import \o <<" ", "y">>
    [] st.form = "pyimport" -> kw_import \o <<" ">> \o st.path
    [] OTHER                -> <<"x", "=", "1">>

\* The text of a file: its statements, one per line.
RECURSIVE contentText(_)
contentText(content) ==
  IF content = <<>> THEN <<>>
  ELSE IF Len(content) = 1 THEN stmtText(content[1])
  ELSE stmtText(content[1]) \o <<"\n">> \o contentText(Tail(content))

\* Lines 54-86: the pre-order walk pushes the module specifier of every
\* import declaration, export declaration, require call and import() call.
RECURSIVE visit(_)
visit(content) ==
  IF content = <<>> THEN <<>>
  ELSE (IF content[1].form \in {"import", "bare", "export", "require", "dynamic"}
          THEN <<content[1].path>> ELSE <<>>) \o visit(Tail(content))

\* \s of the regular expressions, over the characters file texts hold.
isSpace(c) == c \in {" ", "\n", "\t", "\r"}

\* ['"]
isQuote(c) == c \in {"'", "\""}

\* ^ under the m flag matches after a line terminator.
isLineTerminator(c) == c \in {"\n", "\r"}

\* The literal w matches in s at position i.
litAt(s, i, w) ==
  /\ i >= 1
  /\ i + Len(w) - 1 <= Len(s)
  /\ SubSeq(s, i, i + Len(w) - 1) = w

\* The first position at or after i that holds no white space (Len(s) + 1
\* when there is none).
skipSpaces(s, i) ==
  Min({j \in i..(Len(s) + 1) : j = Len(s) + 1 \/ ~isSpace(s[j])})

\* The last position of the run of non-space characters that starts at a.
endOfWord(s, a) ==
  Min({j \in a..Len(s) : j = Len(s) \/ isSpace(s[j + 1])})

\* The result of matching at one position: ok, the captured group, and the
\* position of the last character matched.
NoMatch == [ok |-> FALSE, cap |-> <<>>, end |-> 0]

\* \s+['"]([^'"]+)['"] at position i.
spacesQuoted(s, i) ==
  IF ~(i <= Len(s) /\ isSpace(s[i])) THEN NoMatch
  ELSE LET q == skipSpaces(s, i)
       IN  IF ~(q <= Len(s) /\ isQuote(s[q])) THEN NoMatch
           ELSE LET closers == {r \in (q + 1)..Len(s) : isQuote(s[r])}
                IN  IF closers = {} \/ Min(closers) = q + 1 THEN NoMatch
                    ELSE [ok |-> TRUE,
                          cap |-> SubSeq(s, q + 1, Min(closers) - 1),
                          end |-> Min(closers)]

\* from\s+['"]([^'"]+)['"] at position j.
fromQuoted(s, j) ==
  IF litAt(s, j, kw_from) THEN spacesQuoted(s, j + 4) ELSE NoMatch

\* Line 107, first alternative at position i:
\* import\s+[\s\S]*?from\s+['"]([^'"]+)['"]
importFromAt(s, i) ==
  IF ~(litAt(s, i, kw_import) /\ i + 6 <= Len(s) /\ isSpace(s[i + 6])) THEN NoMatch
  ELSE LET js == {j \in (i + 7)..Len(s) : fromQuoted(s, j).ok}
       IN  IF js = {} THEN NoMatch ELSE fromQuoted(s, Min(js))

\* Line 107, second alternative at position i: import\s+['"]([^'"]+)['"]
importBareAt(s, i) ==
  IF litAt(s, i, kw_import) THEN spacesQuoted(s, i + 6) ELSE NoMatch

\* Line 107: the alternation, the first alternative tried first.
importRegexAt(s, i) ==
  IF importFromAt(s, i).ok THEN importFromAt(s, i) ELSE importBareAt(s, i)

\* Lines 110-112: regex.exec from position p on, match after match.
RECURSIVE execImportRegex(_, _)
execImportRegex(s, p) ==
  LET starts == {i \in p..Len(s) : importRegexAt(s, i).ok}
  IN  IF starts = {} THEN <<>>
      ELSE LET m == importRegexAt(s, Min(starts))
           IN  <<m.cap>> \o execImportRegex(s, m.end + 1)

\* Lines 106-114, on the text of the file.
fallbackRegexExtract(content) == execImportRegex(contentText(content), 1)

\* Line 97 at position i: from\s+(\S+)\s+import
pyFromAt(s, i) ==
  IF ~(litAt(s, i, kw_from) /\ i + 4 <= Len(s) /\ isSpace(s[i + 4])) THEN NoMatch
  ELSE LET a == skipSpaces(s, i + 4)
       IN  IF a > Len(s) THEN NoMatch
           ELSE LET b == endOfWord(s, a)
                    c == skipSpaces(s, b + 1)
                IN  IF b < Len(s) /\ litAt(s, c, kw_import)
                      THEN [ok |-> TRUE, cap |-> SubSeq(s, a, b), end |-> c + 5]
                      ELSE NoMatch

\* Line 98 at position i: ^import\s+(\S+) under the m flag
pyImportAt(s, i) ==
  IF ~(/\ (i = 1 \/ (i > 1 /\ i <= Len(s) + 1 /\ isLineTerminator(s[i - 1])))
       /\ litAt(s, i, kw_import)
       /\ i + 6 <= Len(s)
       /\ isSpace(s[i + 6]))
    THEN NoMatch
  ELSE LET a == skipSpaces(s, i + 6)
       IN  IF a > Len(s) THEN NoMatch
           ELSE [ok |-> TRUE, cap |-> SubSeq(s, a, endOfWord(s, a)), end |-> endOfWord(s, a)]

\* Line 101: pyFromRegex.exec from position p on.
RECURSIVE execPyFrom(_, _)
execPyFrom(s, p) ==
  LET starts == {i \in p..Len(s) : pyFromAt(s, i).ok}
  IN  IF starts = {} THEN <<>>
      ELSE LET m == pyFromAt(s, Min(starts))
           IN  <<m.cap>> \o execPyFrom(s, m.end + 1)

\* Line 102: pyImportRegex.exec from position p on.
RECURSIVE execPyImport(_, _)
execPyImport(s, p) ==
  LET starts == {i \in p..Len(s) : pyImportAt(s, i).ok}
  IN  IF starts = {} THEN <<>>
      ELSE LET m == pyImportAt(s, Min(starts))
           IN  <<m.cap>> \o execPyImport(s, m.end + 1)

\* Lines 95-104: every "from" match, then every "import" match.
parsePythonImports(content) ==
  execPyFrom(contentText(content), 1) \o execPyImport(contentText(content), 1)

\* Mutant of parseJsTsImports: the catch block keeps what the walk gives.
parseJsTsImports_keepWalk(content, threw) == visit(content)

\* Lines 43-93. The parser or the walk may throw (threw) after the walk has
\* pushed any number of specifiers; the catch block returns the result of
\* fallbackRegexExtract on the same content, and nothing of the walk.
parseJsTsImports(content, threw) ==
  IF threw THEN fallbackRegexExtract(content) ELSE visit(content)

\* Line 20: file.name.match(/\.(ts|tsx|js|jsx)$/)
isJsTsName(name) ==
  \/ endsWith(name, <<".", "t", "s">>)
  \/ endsWith(name, <<".", "t", "s", "x">>)
  \/ endsWith(name, <<".", "j", "s">>)
  \/ endsWith(name, <<".", "j", "s", "x">>)

\* Line 22: file.name.endsWith('.py')
isPyName(name) == endsWith(name, <<".", "p", "y">>)

\* Mutant of extractImports: the type of the file is not looked at.
extractImports_anyType(file, threw) ==
  IF isJsTsName(file.name) THEN parseJsTsImports(file.content, threw)
  ELSE IF isPyName(file.name) THEN parsePythonImports(file.content)
  ELSE <<>>

\* Mutant of extractImports: a code file of any other suffix goes to the
\* regular expression extractor.
extractImports_regexDefault(file, threw) ==
  IF file.type # "file" THEN <<>>
  ELSE IF isJsTsName(file.name) THEN parseJsTsImports(file.content, threw)
  ELSE IF isPyName(file.name) THEN parsePythonImports(file.content)
  ELSE fallbackRegexExtract(file.content)

\* Lines 16-24: the imports of one file, by its type and its name.
extractImports(file, threw) ==
  IF file.type # "file" THEN <<>>
  ELSE IF isJsTsName(file.name) THEN parseJsTsImports(file.content, threw)
  ELSE IF isPyName(file.name) THEN parsePythonImports(file.content)
  ELSE <<>>

(***************************************************************************)
(* The resolver on its own: resolveImport is a pure function of the source *)
(* file, the raw import and the insertion-ordered set of file names. The   *)
(* source file is always one of the known files (generateDependencyGraph   *)
(* builds the set from every file, line 13).                               *)
(***************************************************************************)

VARIABLES rSource, rImport, rKnown, rResult, rpc

rvars == <<rSource, rImport, rKnown, rResult, rpc>>

\* Bound: the number of known files besides the source file.
MaxKnown == 2

SourcePool == {src_a_ts, x_y_ts, y_ts}

KnownPool ==
  {src_a_ts, x_y_ts, y_ts, src_b_ts, Button_tsx,
   x_b, x_b_ts, x_b_tsx, x_b_js, x_b_jsx, x_b_index_ts, x_b_index_tsx,
   foo_b_ts, dot_b, lib_util, src_lib_util_ts, empty_id, b_ts}

ImportPool ==
  {imp_b, imp_a_up_b, imp_alias_Button, imp_up_b, imp_dot, imp_empty,
   imp_lib_util, imp_bare_b, imp_b_slash, imp_Button, imp_b_util}

\* The sequences over S of length at most n without repetition: the
\* iteration orders of a Set holding at most n elements of S.
OrderedSets(S, n) ==
  {q \in UNION {[1..k -> S] : k \in 0..n} :
     \A i, j \in 1..Len(q) : i # j => q[i] # q[j]}

\* q with x inserted so that it is the element at position at + 1.
InsertAt(q, at, x) == SubSeq(q, 1, at) \o <<x>> \o SubSeq(q, at + 1, Len(q))

ResolveInit ==
  /\ rSource \in SourcePool
  /\ rImport \in ImportPool
  /\ \E others \in OrderedSets(KnownPool \ {rSource}, MaxKnown) :
       \E at \in 0..Len(others) : rKnown = InsertAt(others, at, rSource)
  /\ rResult = undefined
  /\ rpc = "call"

\* One call of resolveImport (lines 123-168).
Resolve ==
  /\ rpc = "call"
  /\ rResult' = resolveImport(rSource, rImport, rKnown)
  /\ rpc' = "returned"
  /\ UNCHANGED <<rSource, rImport, rKnown>>

(***************************************************************************)
(* generateDependencyGraph (dependencyService.ts:4-37)                     *)
(***************************************************************************)

VARIABLES files, nodes, links, filePaths, idx, imports, pos, parsed, pc

gvars == <<files, nodes, links, filePaths, idx, imports, pos, parsed, pc>>

vars == <<files, nodes, links, filePaths, idx, imports, pos, parsed, pc,
          rSource, rImport, rKnown, rResult, rpc>>

\* Bound: the number of files of one call.
MaxFiles == 2

File(name, type, content) == [name |-> name, type |-> type, content |-> content]

\* The files a call may be given: every type, every extractor, names with
\* and without a known suffix, the empty name. A TypeScript file holds
\* statements of TypeScript only.
FilePool ==
  {File(src_a_ts, "file", <<Stmt("import", imp_alias_Button)>>),
   File(src_a_ts, "file", <<Stmt("import", imp_b), Stmt("import", src_b_ts), Stmt("import", imp_bare_b)>>),
   File(src_a_ts, "file", <<Stmt("export", imp_b), Stmt("require", imp_b)>>),
   File(src_a_ts, "file", <<Stmt("bare", imp_logo), Stmt("import", imp_lib_util)>>),
   File(src_b_ts, "file", <<Stmt("other", <<>>), Stmt("import", imp_react)>>),
   File(Button_tsx, "file", <<Stmt("dynamic", imp_up_a)>>),
   File(src_logo_png, "image", <<Stmt("import", imp_b)>>),
   File(src_run_ts, "log", <<Stmt("import", imp_b)>>),
   File(src_s_css, "file", <<Stmt("bare", imp_b)>>),
   File(src_m_py, "file", <<Stmt("pyfrom", imp_bare_b), Stmt("pyimport", imp_lib_util)>>),
   File(src_m_py, "issue", <<Stmt("pyimport", imp_bare_b)>>),
   File(lib_util, "file", <<Stmt("bare", imp_b)>>),
   File(lib_util, "metric", <<>>),
   File(empty_id, "file", <<>>),
   File(empty_id, "image", <<Stmt("import", imp_b)>>),
   File(y_ts, "file", <<Stmt("bare", imp_empty), Stmt("import", imp_dot)>>)}

\* Section 3 of the specification: the names of the files of one call are
\* unique.
UniqueNames(fs) == \A i, j \in 1..Len(fs) : i # j => fs[i].name # fs[j].name

\* Mutant of mapNodes: only the code files get a node.
RECURSIVE mapNodes_codeOnly(_)
mapNodes_codeOnly(fs) ==
  IF fs = <<>> THEN <<>>
  ELSE (IF fs[1].type = "file"
          THEN <<[id |-> fs[1].name, name |-> fs[1].name, type |-> fs[1].type, val |-> 1]>>
          ELSE <<>>) \o mapNodes_codeOnly(Tail(fs))

\* Lines 5-10: files.map(f => ({id, name, type, val})).
RECURSIVE mapNodes(_)
mapNodes(fs) ==
  IF fs = <<>> THEN <<>>
  ELSE <<[id |-> fs[1].name, name |-> fs[1].name, type |-> fs[1].type, val |-> 1]>>
       \o mapNodes(Tail(fs))

\* Line 13: new Set(files.map(f => f.name)), in its iteration order: the
\* names in file order, a repeated name kept at its first place.
RECURSIVE nameSet(_, _)
nameSet(fs, acc) ==
  IF fs = <<>> THEN acc
  ELSE nameSet(Tail(fs), IF has(acc, fs[1].name) THEN acc ELSE Append(acc, fs[1].name))

\* Line 29: if (target). undefined and the empty string are falsy.
truthy(target) == target.found /\ target.id # <<>>

GraphInit ==
  /\ files \in {fs \in UNION {[1..k -> FilePool] : k \in 0..MaxFiles} : UniqueNames(fs)}
  /\ nodes = <<>>
  /\ links = <<>>
  /\ filePaths = <<>>
  /\ idx = 0
  /\ imports = <<>>
  /\ pos = 0
  /\ parsed = <<>>
  /\ pc = "start"

\* Lines 5-13: the nodes, the empty link list and the set of file names.
BuildNodes ==
  /\ pc = "start"
  /\ nodes' = mapNodes(files)
  /\ links' = <<>>
  /\ filePaths' = nameSet(files, <<>>)
  /\ idx' = 1
  /\ pc' = "files"
  /\ UNCHANGED <<files, imports, pos, parsed>>

\* Lines 15-24: the next file of files.forEach; its extractor is chosen and
\* run. For a TypeScript or JavaScript file the parse may throw, after the
\* walk collected `collected`.
VisitFile ==
  /\ pc = "files"
  /\ idx <= Len(files)
  /\ \E threw \in BOOLEAN :
       \E n \in 0..Len(visit(files[idx].content)) :
         /\ threw => (files[idx].type = "file" /\ isJsTsName(files[idx].name))
         /\ ~threw => n = 0
         /\ imports' = extractImports(files[idx], threw)
         /\ parsed' = Append(parsed,
                        [threw |-> threw,
                         collected |-> SubSeq(visit(files[idx].content), 1, n),
                         imports |-> extractImports(files[idx], threw)])
  /\ pos' = 1
  /\ pc' = "imports"
  /\ UNCHANGED <<files, nodes, links, filePaths, idx>>

\* Lines 27-32: one import of imports.forEach is resolved and linked.
ResolveAndLink ==
  /\ pc = "imports"
  /\ pos <= Len(imports)
  /\ LET target == resolveImport(files[idx].name, imports[pos], filePaths)
     IN  links' = IF truthy(target)
                    THEN Append(links, [source |-> files[idx].name, target |-> target.id])
                    ELSE links
  /\ pos' = pos + 1
  /\ UNCHANGED <<files, nodes, filePaths, idx, imports, parsed, pc>>

\* Line 33: the imports of the file are done.
EndFile ==
  /\ pc = "imports"
  /\ pos > Len(imports)
  /\ idx' = idx + 1
  /\ pc' = "files"
  /\ UNCHANGED <<files, nodes, links, filePaths, imports, pos, parsed>>

\* Line 36: return { nodes, links }.
Return ==
  /\ pc = "files"
  /\ idx > Len(files)
  /\ pc' = "done"
  /\ UNCHANGED <<files, nodes, links, filePaths, idx, imports, pos, parsed>>

ResolverIdle ==
  /\ rSource = <<>>
  /\ rImport = <<>>
  /\ rKnown = <<>>
  /\ rResult = undefined
  /\ rpc = "idle"

GraphIdle ==
  /\ files = <<>>
  /\ nodes = <<>>
  /\ links = <<>>
  /\ filePaths = <<>>
  /\ idx = 0
  /\ imports = <<>>
  /\ pos = 0
  /\ parsed = <<>>
  /\ pc = "idle"

Init == GraphInit /\ ResolverIdle

Next ==
  \/ (BuildNodes /\ UNCHANGED rvars)
  \/ (VisitFile /\ UNCHANGED rvars)
  \/ (ResolveAndLink /\ UNCHANGED rvars)
  \/ (EndFile /\ UNCHANGED rvars)
  \/ (Return /\ UNCHANGED rvars)

\* One call of generateDependencyGraph.
Spec == Init /\ [][Next]_vars

RInit == ResolveInit /\ GraphIdle

RNext == Resolve /\ UNCHANGED gvars

\* One call of resolveImport.
SpecResolve == RInit /\ [][RNext]_vars

(***************************************************************************)
(* Properties of generateDependencyGraph (checked under Spec)              *)
(***************************************************************************)

nodeIds == {nodes[n].id : n \in 1..Len(nodes)}

\* The strategy of resolveImport that yields the target: 1, 2 or 3, and 0
\* when there is no target.
strategyOf(sourceFile, importPath, allFiles) ==
  IF relativeMatch(sourceFile, importPath, allFiles).found THEN 1
  ELSE IF exactMatch(importPath, allFiles).found THEN 2
  ELSE IF basenameMatch(importPath, allFiles).found THEN 3
  ELSE 0

\* C1: every edge of the graph has a source and a target that are ids of
\* nodes of the same graph (no dangling edge).
C1_NoDanglingEdges ==
  \A k \in 1..Len(links) :
    /\ links[k].source \in nodeIds
    /\ links[k].target \in nodeIds

\* A finished graph that holds edges resolved by each of the three
\* strategies.
C1_Witness ==
  /\ pc = "done"
  /\ \A st \in 1..3 :
       \E i \in 1..Len(files) : \E p \in 1..Len(parsed[i].imports) :
         /\ strategyOf(files[i].name, parsed[i].imports[p], filePaths) = st
         /\ \E k \in 1..Len(links) :
              /\ links[k].source = files[i].name
              /\ links[k].target =
                   resolveImport(files[i].name, parsed[i].imports[p], filePaths).id

\* The files of kind Code (type 'file'), by name, and the others.
isCodeName(name) == \E i \in 1..Len(files) : files[i].name = name /\ files[i].type = "file"

isNonCodeName(name) == \E i \in 1..Len(files) : files[i].name = name /\ files[i].type # "file"

\* C2: for src/a.ts whose only import is "@/components/Button" and the
\* known file src/components/Button.tsx, resolveImport returns
\* src/components/Button.tsx and the graph has the edge
\* src/a.ts -> src/components/Button.tsx.
C2_AliasImportResolves ==
  (/\ pc = "done"
   /\ Len(files) = 2
   /\ files[1] = File(src_a_ts, "file", <<Stmt("import", imp_alias_Button)>>)
   /\ files[2].name = Button_tsx)
  => /\ resolveImport(src_a_ts, imp_alias_Button, filePaths) = Some(Button_tsx)
     /\ \E k \in 1..Len(links) :
          links[k] = [source |-> src_a_ts, target |-> Button_tsx]

\* C3, as claimed: no edge has a non-code file as its source and no edge
\* has a non-code file as its target.
C3_NonCodeIsolated ==
  \A k \in 1..Len(links) :
    /\ ~isNonCodeName(links[k].source)
    /\ ~isNonCodeName(links[k].target)

\* C3, as amended: no edge has a non-code file as its source, whatever its
\* content and its name. (Nothing is claimed of targets: a non-code file
\* is a known file name like any other and can be the target of an edge.)
C3_NonCodeNeverSource ==
  \A k \in 1..Len(links) : ~isNonCodeName(links[k].source)

\* A finished graph with a non-code file that holds an import and is
\* itself the target of the edge of a code file.
C3_Witness ==
  /\ pc = "done"
  /\ \E i \in 1..Len(files) :
       /\ files[i].type # "file"
       /\ files[i].content # <<>>
       /\ \E k \in 1..Len(links) :
            links[k].target = files[i].name /\ isCodeName(links[k].source)

\* C6: when the parse of a .ts/.tsx/.js/.jsx file throws, the imports of
\* the file are exactly the result of the regular expression extractor on
\* the same content, whatever the walk had collected, and every file is
\* still visited.
C6_ParseErrorFallsBack ==
  /\ \A i \in 1..Len(parsed) :
       parsed[i].threw => parsed[i].imports = fallbackRegexExtract(files[i].content)
  /\ pc = "done" => Len(parsed) = Len(files)

\* A finished graph whose first file threw after the walk had collected
\* imports that the fallback does not return, and whose second file was
\* still parsed and linked.
C6_Witness ==
  /\ pc = "done"
  /\ Len(files) = 2
  /\ parsed[1].threw
  /\ parsed[1].collected # <<>>
  /\ parsed[1].imports # parsed[1].collected
  /\ parsed[1].imports # visit(files[1].content)
  /\ \E k \in 1..Len(links) : links[k].source = files[2].name

\* The suffixes an extractor exists for.
hasExtractorSuffix(name) ==
  \/ endsWith(name, <<".", "t", "s">>)
  \/ endsWith(name, <<".", "t", "s", "x">>)
  \/ endsWith(name, <<".", "j", "s">>)
  \/ endsWith(name, <<".", "j", "s", "x">>)
  \/ endsWith(name, <<".", "p", "y">>)

\* C7: the source of every edge is a file of kind Code whose name ends in
\* .ts, .tsx, .js, .jsx or .py; any other file yields no import and no
\* outgoing edge.
C7_EdgeSourcesAreParsedCode ==
  /\ \A k \in 1..Len(links) :
       isCodeName(links[k].source) /\ hasExtractorSuffix(links[k].source)
  /\ \A i \in 1..Len(parsed) :
       (files[i].type # "file" \/ ~hasExtractorSuffix(files[i].name))
         => parsed[i].imports = <<>>

\* A finished graph with a code file of another suffix whose text imports
\* a file of the graph, and no edge.
C7_Witness ==
  /\ pc = "done"
  /\ Len(files) = 2
  /\ files[1] = File(src_s_css, "file", <<Stmt("bare", imp_b)>>)
  /\ files[2].name = src_b_ts
  /\ resolveImport(src_s_css, imp_b, filePaths).found
  /\ links = <<>>

\* C8: the node list has the length of the file list, and the i-th node has
\* the id and the kind of the i-th file.
C8_OneNodePerFile ==
  pc # "start" =>
    /\ Len(nodes) = Len(files)
    /\ \A i \in 1..Len(files) :
         nodes[i].id = files[i].name /\ nodes[i].type = files[i].type

\* A finished graph of two files, the first without imports and of another
\* kind than the second.
C8_Witness ==
  /\ pc = "done"
  /\ Len(files) = 2
  /\ parsed[1].imports = <<>>
  /\ parsed[2].imports # <<>>
  /\ files[1].type # files[2].type
  /\ Len(nodes) = 2

\* The edges the claim C9 describes for the imports of file i from the
\* p-th on: one edge for each import that resolveImport finds a target for.
RECURSIVE claimedEdgesOf(_, _)
claimedEdgesOf(i, p) ==
  IF p > Len(parsed[i].imports) THEN <<>>
  ELSE LET target == resolveImport(files[i].name, parsed[i].imports[p], filePaths)
       IN  (IF target.found
              THEN <<[source |-> files[i].name, target |-> target.id]>>
              ELSE <<>>) \o claimedEdgesOf(i, p + 1)

RECURSIVE claimedEdgesFrom(_)
claimedEdgesFrom(i) ==
  IF i > Len(parsed) THEN <<>> ELSE claimedEdgesOf(i, 1) \o claimedEdgesFrom(i + 1)

\* C9: the edge sequence is, in file order and then extraction order, one
\* edge for each raw import whose resolution yields a target, whatever the
\* known id that is the target (the empty string too), repeated imports
\* giving repeated edges.
C9_EdgesFollowImports ==
  pc = "done" => links = claimedEdgesFrom(1)

(***************************************************************************)
(* Properties of resolveImport (checked under SpecResolve)                 *)
(***************************************************************************)

\* C4, as claimed: from x/y.ts, "./a/../b" resolves to what "./b" resolves
\* to (the same target, or no target for both), whatever the known files.
C4_NormalizationInvariant ==
  (rpc = "returned" /\ rSource = x_y_ts /\ rImport = imp_a_up_b)
    => rResult = resolveImport(x_y_ts, imp_b, rKnown)

\* C4, as amended: from x/y.ts, the relative probe (strategy 1) gives the
\* same result for "./a/../b" and for "./b", and whenever it finds a target
\* resolveImport returns that target for both; when it finds none, the
\* later strategies read the import as written and the two can differ.
C4_RelativeProbeNormalizes ==
  (rpc = "returned" /\ rSource = x_y_ts /\ rImport = imp_a_up_b)
    => /\ relativeMatch(x_y_ts, imp_a_up_b, rKnown) = relativeMatch(x_y_ts, imp_b, rKnown)
       /\ (\E e \in {<<>>, <<".", "t", "s">>, <<".", "t", "s", "x">>, <<".", "j", "s">>,
                     <<".", "j", "s", "x">>, <<"/", "i", "n", "d", "e", "x", ".", "t", "s">>,
                     <<"/", "i", "n", "d", "e", "x", ".", "t", "s", "x">>} :
             has(rKnown, x_b \o e))
            => /\ rResult.found
               /\ rResult = resolveImport(x_y_ts, imp_b, rKnown)

\* "./a/../b" resolved from x/y.ts to x/b.ts by the relative probe.
C4_Witness ==
  /\ rpc = "returned"
  /\ rSource = x_y_ts
  /\ rImport = imp_a_up_b
  /\ rResult = Some(x_b_ts)

\* The suffixes strategy 1 probes, in the order of the claim C5.
C5_ProbeOrder ==
  << <<>>,
     <<".", "t", "s">>,
     <<".", "t", "s", "x">>,
     <<".", "j", "s">>,
     <<".", "j", "s", "x">>,
     <<"/", "i", "n", "d", "e", "x", ".", "t", "s">>,
     <<"/", "i", "n", "d", "e", "x", ".", "t", "s", "x">> >>

\* The base path the claim C5 describes, for the sources and the relative
\* imports of the bounded inputs: the directory of the source with the
\* import's segments folded over it.
C5_Base(source, imp) ==
  LET dir == IF source = src_a_ts THEN <<"s", "r", "c">>
             ELSE IF source = x_y_ts THEN <<"x">>
             ELSE <<>>
      under(d, leaf) == IF d = <<>> THEN leaf ELSE d \o <<"/">> \o leaf
  IN  CASE imp = imp_b      -> under(dir, <<"b">>)
        [] imp = imp_a_up_b -> under(dir, <<"b">>)
        [] imp = imp_up_b   -> <<"b">>
        [] imp = imp_dot    -> dir
        [] imp = imp_b_slash -> under(dir, <<"b", "/">>)

\* C5: for a raw import that starts with '.', when one of base, base.ts,
\* base.tsx, base.js, base.jsx, base/index.ts, base/index.tsx is a known
\* id, resolveImport returns the first of them, in that order, that is;
\* src/a.ts importing "./b" with src/b.ts known resolves to src/b.ts.
C5_RelativeProbe ==
  rpc = "returned" =>
    /\ startsWith(rImport, <<".">>) =>
         \A e \in 1..Len(C5_ProbeOrder) :
           (/\ has(rKnown, C5_Base(rSource, rImport) \o C5_ProbeOrder[e])
            /\ \A d \in 1..(e - 1) :
                 ~has(rKnown, C5_Base(rSource, rImport) \o C5_ProbeOrder[d]))
             => rResult = Some(C5_Base(rSource, rImport) \o C5_ProbeOrder[e])
    /\ (rSource = src_a_ts /\ rImport = imp_b /\ has(rKnown, src_b_ts))
         => rResult = Some(src_b_ts)

\* "../b" resolved from the top-level file y.ts, where ".." pops nothing,
\* to b.ts, the second suffix probed.
C5_Witness ==
  /\ rpc = "returned"
  /\ rSource = y_ts
  /\ rImport = imp_up_b
  /\ rResult = Some(b_ts)

\* C10: the strategies are tried in order. The result is that of the
\* relative probe when it has one; otherwise the raw import itself when it
\* is a known id; otherwise that of the basename scan.
C10_StrategiesPrioritized ==
  rpc = "returned" =>
    IF /\ startsWith(rImport, <<".">>)
       /\ \E e \in 1..Len(C5_ProbeOrder) :
            has(rKnown, resolvedBase(rSource, rImport) \o C5_ProbeOrder[e])
      THEN /\ rResult.found
           /\ \E e \in 1..Len(C5_ProbeOrder) :
                rResult.id = resolvedBase(rSource, rImport) \o C5_ProbeOrder[e]
    ELSE IF \E i \in 1..Len(rKnown) : rKnown[i] = rImport
      THEN rResult = Some(rImport)
    ELSE rResult = basenameMatch(rImport, rKnown)

\* "./b" from x/y.ts, with "./b" itself a known id (an exact match and a
\* basename-suffix match) placed before x/b.ts: the relative probe wins.
C10_Witness ==
  /\ rpc = "returned"
  /\ rSource = x_y_ts
  /\ rImport = imp_b
  /\ \E i, j \in 1..Len(rKnown) : i < j /\ rKnown[i] = dot_b /\ rKnown[j] = x_b_ts
  /\ suffixTest(dot_b, rImport)
  /\ rResult = Some(x_b_ts)

\* C11: when strategies 1 and 2 find nothing, resolveImport finds nothing
\* if the last '/'-segment of the raw import is empty; otherwise it returns
\* the first id, in insertion order, whose extension-stripped form ends
\* with the raw import or with '/' + the raw import (the earliest of
\* several), and nothing when there is none.
C11_BasenameScanFirstMatch ==
  (/\ rpc = "returned"
   /\ ~relativeMatch(rSource, rImport, rKnown).found
   /\ ~exactMatch(rImport, rKnown).found)
  => IF rImport = <<>> \/ rImport[Len(rImport)] = "/"
       THEN rResult = undefined
       ELSE LET matches ==
                  {i \in 1..Len(rKnown) :
                     \/ endsWith(fileNoExt(rKnown[i]), rImport)
                     \/ endsWith(fileNoExt(rKnown[i]), <<"/">> \o rImport)}
            IN  IF matches = {}
                  THEN rResult = undefined
                  ELSE \E i \in matches :
                         /\ \A j \in matches : i <= j
                         /\ rResult = Some(rKnown[i])

\* "b" from src/a.ts with two ids that match, x/b.ts inserted before
\* src/b.ts: the scan returns x/b.ts.
C11_Witness ==
  /\ rpc = "returned"
  /\ rSource = src_a_ts
  /\ rImport = imp_bare_b
  /\ \E i, j \in 1..Len(rKnown) : i < j /\ rKnown[i] = x_b_ts /\ rKnown[j] = src_b_ts
  /\ rResult = Some(x_b_ts)

\* C12: the test "ends with '/' + rawImport" never changes the outcome.
\* An id that passes it passes "ends with rawImport", and the id strategy 3
\* returns is the first id, in insertion order, whose extension-stripped
\* form ends with the raw import: a plain string suffix, not aligned to a
\* path segment.
C12_SlashTestRedundant ==
  rpc = "returned" =>
    /\ \A i \in 1..Len(rKnown) :
         endsWith(fileNoExt(rKnown[i]), <<"/">> \o rImport)
           => endsWith(fileNoExt(rKnown[i]), rImport)
    /\ (/\ ~relativeMatch(rSource, rImport, rKnown).found
        /\ ~exactMatch(rImport, rKnown).found
        /\ importBase(rImport) # <<>>)
         => LET plain == {i \in 1..Len(rKnown) : endsWith(fileNoExt(rKnown[i]), rImport)}
            IN  rResult = IF plain = {} THEN undefined ELSE Some(rKnown[Min(plain)])

\* "b/util" resolved to src/lib/util.ts: the import starts inside the
\* segment "lib", and the file does not end with "/b/util".
C12_Witness ==
  /\ rpc = "returned"
  /\ rImport = imp_b_util
  /\ rResult = Some(src_lib_util_ts)
  /\ ~endsWith(fileNoExt(src_lib_util_ts), <<"/">> \o imp_b_util)

====
